---- MODULE Spec2Model ----
(***************************************************************************)
(* Model of app.py: the text normaliser, the QUESTION_BLOCK grammar, the   *)
(* field sanitiser, parse_questions_from_text, parse_any and the quiz      *)
(* session of the Streamlit script.                                        *)
(*                                                                         *)
(* A text is a sequence of tokens.  A token is one lexical unit of the     *)
(* regular expressions of the source: a white-space character ("SP" for a  *)
(* blank or a tab, "NL", "FF" for \x0c, "CR"), a digit, a colon, one of    *)
(* the keywords the patterns spell out (in any letter case, the patterns   *)
(* are IGNORECASE), a stand-alone letter, the scheme "http://" of a URL,   *)
(* or any other word.                                                      *)
(***************************************************************************)
EXTENDS Integers, Sequences, FiniteSets, TLC

\* ---------------------------------------------------------------------
\* Character classes of the patterns
\* ---------------------------------------------------------------------

\* \s
Space == {"SP", "NL", "FF", "CR"}

\* \d
Digits == {"0", "1", "2", "3", "4", "5", "6", "7", "8", "9"}

\* The class written between '[' and ']' after every marker keyword.  The
\* file stores it as the characters ':', U+00EF, U+00BC, U+0161; the
\* full-width colon U+FF1A (token "FWCOLON") is not one of them.
ColonClass == {":", "U00EF", "U00BC", "U0161"}

\* [ABCD] under IGNORECASE
AnswerClass == {"A", "B", "C", "D", "a", "b", "c", "d"}

\* str.upper() on a one-letter string
Upper(t) ==
    CASE t = "a" -> "A" [] t = "b" -> "B" [] t = "c" -> "C" [] t = "d" -> "D"
      [] OTHER -> t

\* tokens whose last character is not a word character (for \b)
NonWordEnd == Space \cup {":", "FWCOLON", "http://", "EOT"}

Labels == <<"A", "B", "C", "D">>

\* ---------------------------------------------------------------------
\* Scanning helpers.  Positions are 1-based; Len(s)+1 is the end of text.
\* ---------------------------------------------------------------------

At(s, i) == IF i >= 1 /\ i <= Len(s) THEN s[i] ELSE "EOT"

MinOf(S) == CHOOSE x \in S : \A y \in S : x <= y

MaxOf(S) == CHOOSE x \in S : \A y \in S : x >= y

\* the first position from i on whose token is not in the class
SkipClass(s, i, class) ==
    CHOOSE j \in i..(Len(s) + 1) :
        At(s, j) \notin class /\ \A k \in i..(j - 1) : s[k] \in class

\* greedy \s* from i: the first position that holds no white space
SkipWS(s, i) == SkipClass(s, i, Space)

\* greedy \d* from i
SkipDigits(s, i) == SkipClass(s, i, Digits)

\* greedy \S* from i
SkipNonSpace(s, i) ==
    CHOOSE j \in i..(Len(s) + 1) :
        At(s, j) \in Space \cup {"EOT"} /\ \A k \in i..(j - 1) : s[k] \notin Space

\* the concatenation of the sequences ps[lo], ..., ps[hi]
RECURSIVE Concat(_, _, _)
Concat(ps, lo, hi) ==
    IF lo > hi THEN <<>>
    ELSE IF lo = hi THEN ps[lo]
    ELSE LET mid == (lo + hi) \div 2
         IN  Concat(ps, lo, mid) \o Concat(ps, mid + 1, hi)

\* A left-to-right scan for the non-overlapping matches of a pattern, as
\* re.sub and re.finditer perform it.  E[i] is the position after the match
\* that starts at i, or 0; the scan tries position i unless a match it
\* took before reaches beyond i.
RECURSIVE ScanHit(_, _)
ScanHit(E, i) ==
    E[i] # 0 /\ \A j \in 1..(i - 1) : (E[j] > i) => ~ScanHit(E, j)

ScanHits(E) == {i \in DOMAIN E : ScanHit(E, i)}

\* what a substitution puts in the place of s[i], given the matches taken
Piece(s, E, R, hits, i) ==
    IF i \in hits THEN R[i]
    ELSE IF \E j \in hits : j < i /\ E[j] > i THEN <<>>
    ELSE <<s[i]>>

Pieces(s, E, R, hits) ==
    Concat([i \in 1..Len(s) |-> Piece(s, E, R, hits, i)], 1, Len(s))

\* re.sub: every match the scan takes is replaced by R[i], the rest of
\* the text is copied
ReSub(s, E, R) == Pieces(s, E, R, ScanHits(E))

\* the replacement of every match by the same text
Always(s, r) == [i \in 1..Len(s) |-> r]

\* s[i..j-1]
Slice(s, i, j) == IF j <= i THEN <<>> ELSE SubSeq(s, i, j - 1)

\* str.strip()
Strip(s) ==
    IF \A i \in 1..Len(s) : s[i] \in Space THEN <<>>
    ELSE SubSeq(s,
                CHOOSE i \in 1..Len(s) :
                    s[i] \notin Space /\ \A j \in 1..(i - 1) : s[j] \in Space,
                CHOOSE i \in 1..Len(s) :
                    s[i] \notin Space /\ \A j \in (i + 1)..Len(s) : s[j] \in Space)

IsCR(t) == t = "CR"

NotCR(t) == ~IsCR(t)

\* int() of a digit run
DigitVal(t) ==
    CASE t = "0" -> 0 [] t = "1" -> 1 [] t = "2" -> 2 [] t = "3" -> 3
      [] t = "4" -> 4 [] t = "5" -> 5 [] t = "6" -> 6 [] t = "7" -> 7
      [] t = "8" -> 8 [] OTHER -> 9

RECURSIVE IntOf(_)
IntOf(ds) ==
    IF ds = <<>> THEN 0
    ELSE 10 * IntOf(SubSeq(ds, 1, Len(ds) - 1)) + DigitVal(ds[Len(ds)])

\* ---------------------------------------------------------------------
\* Marker patterns.  Each operator gives the position after the match
\* that starts at i, or 0 when the pattern does not match at i.
\* ---------------------------------------------------------------------

\* QUESTION\s*[:..]?\s*\d+
MatchQuestion(s, i) ==
    IF At(s, i) # "QUESTION" THEN 0
    ELSE LET j == SkipWS(s, i + 1)
             k == IF At(s, j) \in ColonClass THEN j + 1 ELSE j
             d == SkipWS(s, k)
         IN  IF At(s, d) \in Digits THEN SkipDigits(s, d) ELSE 0

\* Q(?:UESTION)?\s*[:..]?\s*\d+
MatchQLike(s, i) ==
    IF At(s, i) \notin {"Q", "QUESTION"} THEN 0
    ELSE LET j == SkipWS(s, i + 1)
             k == IF At(s, j) \in ColonClass THEN j + 1 ELSE j
             d == SkipWS(s, k)
         IN  IF At(s, d) \in Digits THEN SkipDigits(s, d) ELSE 0

\* Option\s*<L>\s*[:..]
MatchOption(L, s, i) ==
    IF At(s, i) # "Option" THEN 0
    ELSE LET j == SkipWS(s, i + 1)
             k == SkipWS(s, j + 1)
         IN  IF Upper(At(s, j)) = L /\ At(s, k) \in ColonClass
             THEN k + 1 ELSE 0

\* Correct\s*Answer\s*[:..]
MatchCorrectKw(s, i) ==
    IF At(s, i) # "Correct" THEN 0
    ELSE LET j == SkipWS(s, i + 1)
             k == SkipWS(s, j + 1)
         IN  IF At(s, j) = "Answer" /\ At(s, k) \in ColonClass
             THEN k + 1 ELSE 0

\* tokens whose first character is in [ABCD] under IGNORECASE: the letters
\* themselves and the keywords "Correct" and "Answer"
AnswerInitial == AnswerClass \cup {"Correct", "Answer"}

\* Correct\s*Answer\s*[:..]\s*[ABCD] followed by more of the pattern: the
\* letter has to be a token of its own
MatchCorrectAnswer(s, i) ==
    LET e == MatchCorrectKw(s, i)
    IN  IF e = 0 THEN 0
        ELSE LET a == SkipWS(s, e)
             IN  IF At(s, a) \in AnswerClass THEN a + 1 ELSE 0

\* Correct\s*Answer\s*[:..]\s*[ABCD] as the whole pattern (the sixth
\* marker of normalize_text): the letter may be the first character of a
\* longer token, which the match then uses up
MatchCorrectMarker(s, i) ==
    LET e == MatchCorrectKw(s, i)
    IN  IF e = 0 THEN 0
        ELSE LET a == SkipWS(s, e)
             IN  IF At(s, a) \in AnswerInitial THEN a + 1 ELSE 0

\* Explanation/Reference\s*[:..]
MatchExplanation(s, i) ==
    IF At(s, i) # "ExplRef" THEN 0
    ELSE LET j == SkipWS(s, i + 1)
         IN  IF At(s, j) \in ColonClass THEN j + 1 ELSE 0

\* the list `markers` of normalize_text, by index
NumMarkers == 7

MatchMarker(k, s, i) ==
    CASE k = 1 -> MatchQuestion(s, i)
      [] k = 2 -> MatchOption("A", s, i)
      [] k = 3 -> MatchOption("B", s, i)
      [] k = 4 -> MatchOption("C", s, i)
      [] k = 5 -> MatchOption("D", s, i)
      [] k = 6 -> MatchCorrectMarker(s, i)
      [] OTHER -> MatchExplanation(s, i)

\* https?://\S+ : the scheme and at least one more non-space character
MatchUrl(s, i) ==
    IF At(s, i) = "http://" /\ At(s, i + 1) \notin Space \cup {"EOT"}
    THEN SkipNonSpace(s, i + 1) ELSE 0

\* https?://\S+\s*$ : a URL that only white space separates from the end
MatchUrlTrailer(s, i) ==
    LET e == MatchUrl(s, i)
    IN  IF e # 0 /\ SkipWS(s, e) = Len(s) + 1 THEN Len(s) + 1 ELSE 0

\* ---------------------------------------------------------------------
\* normalize_text
\* ---------------------------------------------------------------------

\* txt.replace("\x0c", "\n")
ReplaceFormFeed(s) == [i \in 1..Len(s) |-> IF s[i] = "FF" THEN "NL" ELSE s[i]]

\* \bSelect\s*one\s*:\s*  (the ASCII colon only)
MatchSelectOne(s, i) ==
    IF At(s, i) # "Select" \/ At(s, i - 1) \notin NonWordEnd THEN 0
    ELSE LET j == SkipWS(s, i + 1)
             k == SkipWS(s, j + 1)
         IN  IF At(s, j) = "one" /\ At(s, k) = ":"
             THEN SkipWS(s, k + 1) ELSE 0

\* re.sub(r"\bSelect\s*one\s*:\s*", "", t)
RemoveSelectOne(s) ==
    ReSub(s, [i \in 1..Len(s) |-> MatchSelectOne(s, i)], Always(s, <<>>))

\* (?<!\n)({pat}) for the k-th marker
MatchUnanchored(k, s, i) ==
    IF At(s, i - 1) = "NL" THEN 0 ELSE MatchMarker(k, s, i)

\* re.sub(rf"(?<!\n)({pat})", r"\n\1", t) for the k-th marker
InsertNewline(k, s) ==
    ReSub(s, [i \in 1..Len(s) |-> MatchUnanchored(k, s, i)],
          [i \in 1..Len(s) |-> <<"NL">> \o Slice(s, i, MatchUnanchored(k, s, i))])

\* the loop over `markers`, from the k-th on
RECURSIVE InsertAllNewlines(_, _)
InsertAllNewlines(s, k) ==
    IF k > NumMarkers THEN s
    ELSE InsertAllNewlines(InsertNewline(k, s), k + 1)

\* [ \t]+
MatchBlanks(s, i) == IF At(s, i) = "SP" THEN SkipClass(s, i, {"SP"}) ELSE 0

\* re.sub(r"[ \t]+", " ", t)
CollapseSpaces(s) ==
    ReSub(s, [i \in 1..Len(s) |-> MatchBlanks(s, i)], Always(s, <<"SP">>))

\* \nhttps?://\S+\s*(?=\n) : the position of the new line the look-ahead
\* sees (the last one of the white space after the URL), or 0
MatchUrlLine(s, i) ==
    IF At(s, i) # "NL" \/ MatchUrl(s, i + 1) = 0 THEN 0
    ELSE LET u == MatchUrl(s, i + 1)
             w == SkipWS(s, u)
             nls == {j \in u..(w - 1) : s[j] = "NL"}
         IN  IF nls = {} THEN 0 ELSE MaxOf(nls)

\* re.sub(r"\nhttps?://\S+\s*(?=\n)", "\n", t)
RemoveUrlLines(s) ==
    ReSub(s, [i \in 1..Len(s) |-> MatchUrlLine(s, i)], Always(s, <<"NL">>))

\* re.sub(r"https?://\S+\s*$", "", t)
RemoveUrlTrailer(s) ==
    ReSub(s, [i \in 1..Len(s) |-> MatchUrlTrailer(s, i)], Always(s, <<>>))

normalize_text(t) ==
    RemoveUrlTrailer(
      RemoveUrlLines(
        CollapseSpaces(
          InsertAllNewlines(RemoveSelectOne(ReplaceFormFeed(t)), 1))))

\* ---------------------------------------------------------------------
\* QUESTION_BLOCK: the composite pattern, one match attempt at position i
\* ---------------------------------------------------------------------

\* where the digits of the QUESTION marker at i start
QuestionDigits(s, i) ==
    LET j == SkipWS(s, i + 1)
        k == IF At(s, j) \in ColonClass THEN j + 1 ELSE j
    IN  SkipWS(s, k)

\* Correct\s*Answer\s*[:..]\s*(?P<ans>[ABCD])\s*Explanation/Reference\s*[:..]\s*
\* from the position p of "Correct": the position of the answer letter
AnswerPos(s, p) == SkipWS(s, MatchCorrectKw(s, p))

\* ... and the position where the explanation starts, or 0
ExplanationStart(s, p) ==
    IF MatchCorrectAnswer(s, p) = 0 THEN 0
    ELSE LET x == SkipWS(s, MatchCorrectAnswer(s, p))
             m == MatchExplanation(s, x)
         IN  IF m = 0 THEN 0 ELSE SkipWS(s, m)

\* a grammar whose explanation field runs to the end of the text
ExplanationEndAtEof(s, from) == Len(s) + 1

\* (?=\s*(?:Q(?:UESTION)?\s*[:..]?\s*\d+)|\Z) at position e
ExplanationStops(s, e) == e = Len(s) + 1 \/ MatchQLike(s, SkipWS(s, e)) # 0

\* (?P<exp>.*?) before that look-ahead: the lazy field ends at the first
\* position where the look-ahead holds
ExplanationEnd(s, from) ==
    CHOOSE e \in from..(Len(s) + 1) :
        ExplanationStops(s, e) /\ \A e0 \in from..(e - 1) : ~ExplanationStops(s, e0)

\* Can the rest of the pattern, from the marker of the given level on,
\* match with that marker at p?  Levels 1..4 are Option A..D, level 5 is
\* Correct Answer.  A lazy field gives way to the next position whenever
\* the rest of the pattern fails, so the field before a marker ends at the
\* first p for which this holds.
RECURSIVE RestMatches(_, _, _)
RestMatches(level, s, p) ==
    IF level = 5 THEN ExplanationStart(s, p) # 0
    ELSE /\ MatchOption(Labels[level], s, p) # 0
         /\ \E p2 \in SkipWS(s, MatchOption(Labels[level], s, p))..Len(s) :
                RestMatches(level + 1, s, p2)

\* the end of the lazy field that starts at `from` and precedes the marker
\* of the given level, or 0 when the pattern cannot match
FieldEnd(level, s, from) ==
    IF \E p \in from..Len(s) : RestMatches(level, s, p)
    THEN CHOOSE p \in from..Len(s) :
             RestMatches(level, s, p)
               /\ \A p0 \in from..(p - 1) : ~RestMatches(level, s, p0)
    ELSE 0

\* where the field after the marker of the given level at p starts
FieldStart(level, s, p) ==
    IF level = 5 THEN ExplanationStart(s, p)
    ELSE SkipWS(s, MatchOption(Labels[level], s, p))

\* the positions of the markers Option A..D and Correct Answer of the match
\* whose first field starts at `from`: ps holds those found so far
RECURSIVE MarkerPositions(_, _, _)
MarkerPositions(s, from, ps) ==
    IF Len(ps) = 5 THEN ps
    ELSE IF FieldEnd(Len(ps) + 1, s, from) = 0 THEN <<>>
    ELSE MarkerPositions(s,
             FieldStart(Len(ps) + 1, s, FieldEnd(Len(ps) + 1, s, from)),
             Append(ps, FieldEnd(Len(ps) + 1, s, from)))

NoMatch == [matched |-> FALSE]

\* the groups of a match: i is the position of QUESTION, ps the positions
\* of the five markers that follow, eE the end of the explanation
Groups(s, i, ps, eE) ==
    [matched |-> TRUE,
     num |-> Slice(s, QuestionDigits(s, i), MatchQuestion(s, i)),
     q   |-> Slice(s, SkipWS(s, MatchQuestion(s, i)), ps[1]),
     A   |-> Slice(s, FieldStart(1, s, ps[1]), ps[2]),
     B   |-> Slice(s, FieldStart(2, s, ps[2]), ps[3]),
     C   |-> Slice(s, FieldStart(3, s, ps[3]), ps[4]),
     D   |-> Slice(s, FieldStart(4, s, ps[4]), ps[5]),
     ans |-> <<s[AnswerPos(s, ps[5])]>>,
     exp |-> Slice(s, FieldStart(5, s, ps[5]), eE),
     end |-> eE]

GroupsAt(s, i, ps) ==
    IF ps = <<>> THEN NoMatch
    ELSE Groups(s, i, ps, ExplanationEnd(s, FieldStart(5, s, ps[5])))

\* the groups of the match of QUESTION_BLOCK that starts at i
QUESTION_BLOCK(s, i) ==
    IF MatchQuestion(s, i) = 0 THEN NoMatch
    ELSE GroupsAt(s, i, MarkerPositions(s, SkipWS(s, MatchQuestion(s, i)), <<>>))

\* the matches the scan takes, in text order
Taken(M, hits) ==
    Concat([i \in 1..Len(M) |-> IF i \in hits THEN <<M[i]>> ELSE <<>>], 1, Len(M))

MatchEnds(M) == [i \in 1..Len(M) |-> IF M[i].matched THEN M[i].end ELSE 0]

\* QUESTION_BLOCK.finditer(txt): the matches from left to right, each
\* search resuming where the previous match ended
FindIter(s) ==
    Taken([i \in 1..Len(s) |-> QUESTION_BLOCK(s, i)],
          ScanHits(MatchEnds([i \in 1..Len(s) |-> QUESTION_BLOCK(s, i)])))

\* ---------------------------------------------------------------------
\* Field clean-up and parse_questions_from_text
\* ---------------------------------------------------------------------

\* s.replace("\r", "").strip()
clean(s) == Strip(SelectSeq(s, NotCR))

\* \s*Correct\s*Answer\s*[:..]\s*[ABCD]\s*$ matched at i
MatchCorrectTail(s, i) ==
    LET e == MatchCorrectAnswer(s, SkipWS(s, i))
    IN  e # 0 /\ SkipWS(s, e) = Len(s) + 1

\* CLEAN_CORRECT_IN_OPTION.sub("", s)
CLEAN_CORRECT_IN_OPTION(s) ==
    ReSub(s, [i \in 1..Len(s) |-> IF MatchCorrectTail(s, i) THEN Len(s) + 1 ELSE 0],
          Always(s, <<>>))

\* URL_TRAILER.sub("", s)
URL_TRAILER(s) == RemoveUrlTrailer(s)

\* the two clean-up lines of the loop over ("A", "B", "C", "D")
SanitizeOption(s) == Strip(URL_TRAILER(Strip(CLEAN_CORRECT_IN_OPTION(s))))

\* the answer letter as the document writes it
AnswerAsWritten(g) == Strip(g)[1]

\* m.group("ans").strip().upper()
AnswerOf(g) == Upper(Strip(g)[1])

\* MCQ(num, q, options, ans, exp) from one match
MCQ(m) ==
    [number      |-> IntOf(m.num),
     question    |-> clean(m.q),
     options     |-> [l \in {"A", "B", "C", "D"} |-> SanitizeOption(clean(m[l]))],
     answer      |-> AnswerOf(m.ans),
     explanation |-> clean(m.exp)]

\* list.sort(key=lambda x: x.number): a stable sort
RECURSIVE InsertByNumber(_, _)
InsertByNumber(sorted, r) ==
    IF sorted = <<>> THEN <<r>>
    ELSE IF sorted[Len(sorted)].number <= r.number THEN Append(sorted, r)
    ELSE Append(InsertByNumber(SubSeq(sorted, 1, Len(sorted) - 1), r),
                sorted[Len(sorted)])

RECURSIVE SortFrom(_, _, _)
SortFrom(rs, i, acc) ==
    IF i > Len(rs) THEN acc ELSE SortFrom(rs, i + 1, InsertByNumber(acc, rs[i]))

\* the records left in document order
DocumentOrder(rs) == rs

SortByNumber(rs) == SortFrom(rs, 1, <<>>)

\* the loop body, for every match
Records(ms) == [i \in 1..Len(ms) |-> MCQ(ms[i])]

parse_questions_from_text(t) == SortByNumber(Records(FindIter(normalize_text(t))))

\* ---------------------------------------------------------------------
\* Input texts: documents of question blocks in the layouts the extractors
\* deliver
\* ---------------------------------------------------------------------

\* the most blocks a document holds
MaxBlocks == 2

\* the largest question number written in a document
MaxNum == 2

\* the most blocks of a document that depart from the plain layout
MaxOdd == 1

DigitChar(d) ==
    CASE d = 0 -> "0" [] d = 1 -> "1" [] d = 2 -> "2" [] d = 3 -> "3"
      [] d = 4 -> "4" [] d = 5 -> "5" [] d = 6 -> "6" [] d = 7 -> "7"
      [] d = 8 -> "8" [] OTHER -> "9"

\* str(n)
RECURSIVE ToDigits(_)
ToDigits(n) ==
    IF n < 10 THEN <<DigitChar(n)>>
    ELSE Append(ToDigits(n \div 10), DigitChar(n % 10))

Variants ==
    {"plain", "glued", "lower", "nocolon", "fullwidth", "noC", "url3", "qref",
     "urlsplit", "stray", "noisy", "urlopt", "emptystem", "junk"}

Url == <<"http://", "u">>

\* the colon a layout writes after a keyword
ColonOf(v) == IF v = "fullwidth" THEN "FWCOLON" ELSE ":"

\* what a layout puts after a field
EndOf(v) ==
    CASE v = "glued" -> <<>> [] v = "noisy" -> <<"SP", "SP", "FF">>
      [] v = "urlsplit" -> <<"SP">> [] OTHER -> <<"NL">>

\* a blank after a colon
GapOf(v) == IF v = "glued" THEN <<>> ELSE <<"SP">>

HeadOf(n, v) ==
    <<"QUESTION">>
      \o (IF v = "nocolon" THEN <<"SP">> ELSE <<ColonOf(v)>>)
      \o ToDigits(n)
      \o (CASE v = "emptystem" -> <<>>
            [] v = "glued" -> <<"wq">>
            [] v = "noisy" -> <<"SP", "wq", "CR", "NL", "Select", "SP", "one", ":", "SP">>
            [] OTHER -> <<"SP", "wq">>)
      \o EndOf(v)

WordOf(L) ==
    CASE L = "A" -> "wa" [] L = "B" -> "wb" [] L = "C" -> "wc" [] OTHER -> "wd"

OptionOf(L, v) ==
    IF v = "noC" /\ L = "C" THEN <<>>
    ELSE IF v = "urlsplit" /\ L = "A"
    THEN <<"Option", "SP", "A", "NL">> \o Url \o <<"NL", ":", "SP", "wa", "SP">>
    ELSE <<"Option">> \o GapOf(v) \o <<L, ColonOf(v)>> \o GapOf(v) \o <<WordOf(L)>>
           \o (IF v = "urlopt" /\ L = "B" THEN <<"SP">> \o Url ELSE <<>>)
           \o (IF v = "stray" /\ L = "D"
               THEN <<"SP", "Correct", "SP", "Answer", ":", "SP", "A">> ELSE <<>>)
           \o EndOf(v)

\* the letter the block of question n declares correct
LetterOf(n, v) == IF v = "lower" THEN "b" ELSE Labels[(n % 4) + 1]

AnswerLineOf(n, v) ==
    <<"Correct">> \o GapOf(v) \o <<"Answer", ColonOf(v)>> \o GapOf(v)
      \o <<LetterOf(n, v)>> \o EndOf(v)

ExplanationOf(v) ==
    <<"ExplRef", ColonOf(v)>> \o GapOf(v) \o <<"we">>
      \o (CASE v = "url3" -> <<"SP">> \o Url \o <<"SP">> \o Url \o <<"SP">> \o Url
            [] v = "qref" -> <<"SP", "Q", "SP", "7", "SP", "wf">>
            [] v = "noisy" -> <<"NL", "wf", "NL">> \o Url
            [] OTHER -> <<>>)
      \o (IF v = "glued" THEN <<>> ELSE <<"NL">>)

\* the text of one block of question n in layout v
Block(n, v) ==
    IF v = "junk" THEN <<"wq", "SP", "Q", "NL">>
    ELSE HeadOf(n, v) \o OptionOf("A", v) \o OptionOf("B", v) \o OptionOf("C", v)
           \o OptionOf("D", v) \o AnswerLineOf(n, v) \o ExplanationOf(v)

Render(d) == Concat([i \in 1..Len(d) |-> Block(d[i][1], d[i][2])], 1, Len(d))

Docs ==
    {d \in UNION {[1..k -> (1..MaxNum) \X Variants] : k \in 0..MaxBlocks} :
        Cardinality({i \in 1..Len(d) : d[i][2] # "plain"}) <= MaxOdd}

Texts == {Render(d) : d \in Docs}

\* ---------------------------------------------------------------------
\* State
\* ---------------------------------------------------------------------

VARIABLES
    \* a run of parse_questions_from_text
    txt,        \* the text handed to the parser
    norm,       \* normalize_text(txt)
    found,      \* `results` before the sort: the records in document order
    results,    \* what parse_questions_from_text(txt) returns
    once,       \* parse_questions_from_text(normalize_text(txt))
    twice,      \* parse_questions_from_text(normalize_text(normalize_text(txt)))
    pc,         \* how far the run has got
    \* the extraction libraries: is the imported name bound (not None)?
    pdf_extract_text,
    Document,
    \* a call of parse_any
    filename,   \* its argument filename, a sequence of characters
    file_bytes, \* its argument file_bytes, as the libraries read them
    extracted,  \* the local txt
    calls,      \* the functions the call has entered, in order
    outcome,    \* what the call returned or raised
    docpc,      \* how far the call has got
    \* a session of the Streamlit script
    uploaded,         \* the file in the uploader: <<>> or <<file>>
    shuffle,          \* the "Shuffle questions" toggle
    rng,              \* the permutations random.Random(file_id) deals
    quiz,             \* st.session_state.quiz
    query_params,     \* st.query_params
    radio,            \* the value the rendered radio widget holds
    progress_loader,  \* the file in the "Load progress JSON" uploader
    event,            \* the button whose click started the run
    scriptpc,         \* "idle", "run" (a run is due) or "loop"
    screen            \* what the last run of the script drew

parseVars == <<txt, norm, found, results, once, twice, pc>>

libVars == <<pdf_extract_text, Document>>

docVars == <<filename, file_bytes, extracted, calls, outcome, docpc>>

uiVars == <<uploaded, shuffle, rng, quiz, query_params, radio, progress_loader, event,
           scriptpc, screen>>

vars == <<parseVars, libVars, docVars, uiVars>>

\* ---------------------------------------------------------------------
\* Values of the document reader and of the session
\* ---------------------------------------------------------------------

NoError == [type |-> "", message |-> ""]

\* a function call that raised e
Raise(e) == [raised |-> TRUE, error |-> e, text |-> <<>>, records |-> <<>>]

\* an extractor that returned the text t
ReturnText(t) == [raised |-> FALSE, error |-> NoError, text |-> t, records |-> <<>>]

\* a parser that returned the records rs
ReturnRecords(rs) == [raised |-> FALSE, error |-> NoError, text |-> <<>>, records |-> rs]

Pending == ReturnRecords(<<>>)

NoBytes == [format |-> "none", size |-> 0, text |-> <<>>, paragraphs |-> <<>>, cells |-> <<>>]

\* "answers": {}
NoAnswers == [k \in {} |-> "A"]

\* "quiz" not in st.session_state
NoQuiz ==
    [present |-> FALSE, file_id |-> <<>>, answers |-> NoAnswers, index |-> 0,
     submitted |-> FALSE, order |-> <<>>, order_mode |-> "None"]

\* a URL without query parameters
NoParams == [present |-> FALSE, file |-> <<>>, idx |-> <<>>, ans |-> {}]

NoLabel == [letter |-> "", text |-> <<>>]

\* no radio widget was drawn
NoRadio == [present |-> FALSE, number |-> 0, label |-> NoLabel]

\* an empty "Load progress JSON" uploader
NoProgress ==
    [present |-> FALSE, json |-> FALSE, file |-> <<>>, index |-> 0, answers |-> {},
     submitted |-> FALSE]

\* a page of the given view that shows no question
Page(view, message) ==
    [view |-> view, message |-> message, idx |-> 0, total |-> 0, number |-> 0,
     choices |-> <<>>, submitted |-> FALSE, exported |-> FALSE, out |-> <<>>,
     correct |-> 0, attempted |-> 0, sidebar |-> ""]

\* st.info("Upload a PDF or DOCX to get started.")
InfoScreen == Page("info", "Upload a PDF or DOCX to get started.")

ParseIdle ==
    /\ txt = <<>>
    /\ norm = <<>>
    /\ found = <<>>
    /\ results = <<>>
    /\ once = <<>>
    /\ twice = <<>>
    /\ pc = "idle"

DocIdle ==
    /\ filename = <<>>
    /\ file_bytes = NoBytes
    /\ extracted = <<>>
    /\ calls = <<>>
    /\ outcome = Pending
    /\ docpc = "idle"

UiIdle ==
    /\ uploaded = <<>>
    /\ shuffle = FALSE
    /\ rng = <<>>
    /\ quiz = NoQuiz
    /\ query_params = NoParams
    /\ radio = NoRadio
    /\ progress_loader = NoProgress
    /\ event = [kind |-> "none", arg |-> 0]
    /\ scriptpc = "idle"
    /\ screen = InfoScreen

\* ---------------------------------------------------------------------
\* parse_questions_from_text, step by step
\* ---------------------------------------------------------------------

Init ==
    /\ txt \in Texts
    /\ norm = <<>>
    /\ found = <<>>
    /\ results = <<>>
    /\ once = <<>>
    /\ twice = <<>>
    /\ pc = "start"
    /\ pdf_extract_text = TRUE
    /\ Document = TRUE
    /\ DocIdle
    /\ UiIdle

\* parse_questions_from_text, first line: txt = normalize_text(txt)
Normalize ==
    /\ pc = "start"
    /\ norm' = normalize_text(txt)
    /\ pc' = "normalized"
    /\ UNCHANGED <<txt, found, results, once, twice, libVars, docVars, uiVars>>

\* the loop over QUESTION_BLOCK.finditer(txt)
Match ==
    /\ pc = "normalized"
    /\ found' = Records(FindIter(norm))
    /\ pc' = "matched"
    /\ UNCHANGED <<txt, norm, results, once, twice, libVars, docVars, uiVars>>

\* results.sort(key=lambda x: x.number); return results
Sort ==
    /\ pc = "matched"
    /\ results' = SortByNumber(found)
    /\ pc' = "parsed"
    /\ UNCHANGED <<txt, norm, found, once, twice, libVars, docVars, uiVars>>

\* a caller that normalises the text itself before it parses
ParseNormalized ==
    /\ pc = "parsed"
    /\ once' = parse_questions_from_text(normalize_text(txt))
    /\ pc' = "once"
    /\ UNCHANGED <<txt, norm, found, results, twice, libVars, docVars, uiVars>>

\* a caller that normalises the text twice before it parses
ParseNormalizedTwice ==
    /\ pc = "once"
    /\ twice' = parse_questions_from_text(normalize_text(normalize_text(txt)))
    /\ pc' = "twice"
    /\ UNCHANGED <<txt, norm, found, results, once, libVars, docVars, uiVars>>

Next ==
    \/ Normalize
    \/ Match
    \/ Sort
    \/ ParseNormalized
    \/ ParseNormalizedTwice

Spec == Init /\ [][Next]_vars

Parsed == pc \in {"parsed", "once", "twice"}

Normalized == pc \in {"normalized", "matched", "parsed", "once", "twice"}

\* ---------------------------------------------------------------------
\* The input readers and parse_any
\* ---------------------------------------------------------------------

UpperCase ==
    <<"A", "B", "C", "D", "E", "F", "G", "H", "I", "J", "K", "L", "M",
      "N", "O", "P", "Q", "R", "S", "T", "U", "V", "W", "X", "Y", "Z">>

LowerCase ==
    <<"a", "b", "c", "d", "e", "f", "g", "h", "i", "j", "k", "l", "m",
      "n", "o", "p", "q", "r", "s", "t", "u", "v", "w", "x", "y", "z">>

\* str.lower() of one character
LowerChar(c) ==
    IF \E i \in DOMAIN UpperCase : UpperCase[i] = c
    THEN LowerCase[CHOOSE i \in DOMAIN UpperCase : UpperCase[i] = c]
    ELSE c

\* the file name in the letter case the caller wrote it in
AsTyped(name) == name

\* filename.lower()
Lower(name) == [i \in 1..Len(name) |-> LowerChar(name[i])]

\* str.endswith(suffix)
EndsWith(s, suffix) ==
    /\ Len(s) >= Len(suffix)
    /\ SubSeq(s, Len(s) - Len(suffix) + 1, Len(s)) = suffix

DotPdf == <<".", "p", "d", "f">>

DotDocx == <<".", "d", "o", "c", "x">>

PdfMissing ==
    [type |-> "RuntimeError",
     message |-> "pdfminer.six is required. Install with: pip install pdfminer.six"]

DocxMissing ==
    [type |-> "RuntimeError",
     message |-> "python-docx is required. Install with: pip install python-docx"]

Unsupported ==
    [type |-> "RuntimeError",
     message |-> "Unsupported file type. Please upload a PDF or DOCX file."]

\* what pdfminer raises on bytes that are no PDF
NotAPdf == [type |-> "PDFSyntaxError", message |-> "No /Root object! - Is this really a PDF?"]

\* what python-docx raises on bytes that are no DOCX package
NotADocx == [type |-> "BadZipFile", message |-> "File is not a zip file"]

\* pdf_extract_text(io.BytesIO(file_bytes)): the text layer of the PDF
PdfMinerText(bytes) ==
    IF bytes.format = "pdf" THEN ReturnText(bytes.text) ELSE Raise(NotAPdf)

extract_text_from_pdf(bytes, available) ==
    IF ~available THEN Raise(PdfMissing) ELSE PdfMinerText(bytes)

\* if p.text / if t
IsText(t) == t # <<>>

\* cell.text.strip() for every cell of every row of every table
StripCells(cells) == [i \in 1..Len(cells) |-> Strip(cells[i])]

\* "\n".join(parts)
Join(parts) ==
    Concat([i \in 1..Len(parts) |->
               IF i = 1 THEN parts[i] ELSE <<"NL">> \o parts[i]], 1, Len(parts))

\* the paragraphs that hold text, then the stripped cells that hold text
DocxParts(bytes) ==
    SelectSeq(bytes.paragraphs, IsText) \o SelectSeq(StripCells(bytes.cells), IsText)

extract_text_from_docx(bytes, available) ==
    IF ~available THEN Raise(DocxMissing)
    ELSE IF bytes.format # "docx" THEN Raise(NotADocx)
    ELSE ReturnText(Join(DocxParts(bytes)))

\* return parse_questions_from_text(txt), unless the extractor raised
ParseExtracted(r) ==
    IF r.raised THEN r ELSE ReturnRecords(parse_questions_from_text(r.text))

parse_any(bytes, name, pdfOk, docxOk) ==
    IF EndsWith(Lower(name), DotPdf)
    THEN ParseExtracted(extract_text_from_pdf(bytes, pdfOk))
    ELSE IF EndsWith(Lower(name), DotDocx)
    THEN ParseExtracted(extract_text_from_docx(bytes, docxOk))
    ELSE Raise(Unsupported)

\* ---------------------------------------------------------------------
\* Files handed to parse_any
\* ---------------------------------------------------------------------

\* the lines of a text that ends every line with a new line
Breaks(s) == {i \in 1..Len(s) : s[i] = "NL"}

NthBreak(s, k) ==
    IF k = 0 THEN 0
    ELSE CHOOSE i \in Breaks(s) : Cardinality({j \in Breaks(s) : j < i}) = k - 1

Lines(s) ==
    [k \in 1..Cardinality(Breaks(s)) |->
        Slice(s, NthBreak(s, k - 1) + 1, NthBreak(s, k))]

\* a table cell pads its text with blanks
Padded(ls) == [i \in 1..Len(ls) |-> <<"SP">> \o ls[i] \o <<"SP", "NL">>]

PdfFile(t, size) ==
    [format |-> "pdf", size |-> size, text |-> t, paragraphs |-> <<>>, cells |-> <<>>]

DocxFile(ps, cs, size) ==
    [format |-> "docx", size |-> size, text |-> <<>>, paragraphs |-> ps, cells |-> cs]

\* bytes that are neither a PDF nor a DOCX package
Garbage == [format |-> "other", size |-> 3, text |-> <<>>, paragraphs |-> <<>>, cells |-> <<>>]

\* a PDF whose text holds question 2 before question 1
TwoQuestionPdf == PdfFile(Block(2, "plain") \o <<"FF">> \o Block(1, "lower"), 9)

\* a PDF whose text holds no question
EmptyPdf == PdfFile(Block(1, "junk"), 4)

\* a DOCX that holds questions 2, 1 and 3, a line a paragraph, with blank
\* paragraphs between the questions
ThreeQuestionDocx ==
    DocxFile(Lines(Block(2, "plain")) \o <<<<>>>> \o Lines(Block(1, "plain"))
               \o <<<<>>>> \o Lines(Block(3, "plain")), <<>>, 7)

\* a DOCX that holds question 2 in paragraphs and question 1 in a table
TwoQuestionDocx ==
    DocxFile(Lines(Block(2, "plain")),
             Padded(Lines(Block(1, "plain"))) \o <<<<"SP">>>>, 7)

Payloads == {TwoQuestionPdf, EmptyPdf, ThreeQuestionDocx, TwoQuestionDocx, Garbage}

FileNames ==
    {<<"q", ".", "p", "d", "f">>,
     <<"q", ".", "P", "D", "F">>,
     <<"q", ".", "d", "o", "c", "x">>,
     <<"Q", ".", "D", "o", "c", "X">>,
     <<"q", ".", "t", "x", "t">>,
     <<"q", ".", "p", "d", "f", ".", "t", "x", "t">>,
     <<"q", ".", "d", "o", "c", "x", ".", "p", "d", "f">>,
     <<"p", "d", "f">>,
     <<"q", ".", "d", "o", "c">>,
     <<".", "d", "o", "c", "x">>}

\* ---------------------------------------------------------------------
\* parse_any, step by step
\* ---------------------------------------------------------------------

InitDoc ==
    /\ filename \in FileNames
    /\ file_bytes \in Payloads
    /\ pdf_extract_text \in BOOLEAN
    /\ Document \in BOOLEAN
    /\ extracted = <<>>
    /\ calls = <<>>
    /\ outcome = Pending
    /\ docpc = "called"
    /\ ParseIdle
    /\ UiIdle

\* the call of the extractor fn came back with r
Extracted(fn, r) ==
    /\ calls' = Append(calls, fn)
    /\ IF r.raised
       THEN /\ outcome' = r
            /\ docpc' = "done"
            /\ extracted' = extracted
       ELSE /\ extracted' = r.text
            /\ docpc' = "extracted"
            /\ outcome' = outcome
    /\ UNCHANGED <<filename, file_bytes, libVars, parseVars, uiVars>>

\* if name.endswith(".pdf"): txt = extract_text_from_pdf(file_bytes)
ExtractPdf ==
    /\ docpc = "called"
    /\ EndsWith(Lower(filename), DotPdf)
    /\ Extracted("extract_text_from_pdf",
                 extract_text_from_pdf(file_bytes, pdf_extract_text))

\* elif name.endswith(".docx"): txt = extract_text_from_docx(file_bytes)
ExtractDocx ==
    /\ docpc = "called"
    /\ ~EndsWith(Lower(filename), DotPdf)
    /\ EndsWith(Lower(filename), DotDocx)
    /\ Extracted("extract_text_from_docx",
                 extract_text_from_docx(file_bytes, Document))

\* else: raise RuntimeError("Unsupported file type. ...")
RaiseUnsupported ==
    /\ docpc = "called"
    /\ ~EndsWith(Lower(filename), DotPdf)
    /\ ~EndsWith(Lower(filename), DotDocx)
    /\ outcome' = Raise(Unsupported)
    /\ docpc' = "done"
    /\ UNCHANGED <<filename, file_bytes, extracted, calls, libVars, parseVars, uiVars>>

\* return parse_questions_from_text(txt)
ReturnParsed ==
    /\ docpc = "extracted"
    /\ calls' = Append(calls, "parse_questions_from_text")
    /\ outcome' = ReturnRecords(parse_questions_from_text(extracted))
    /\ docpc' = "done"
    /\ UNCHANGED <<filename, file_bytes, extracted, libVars, parseVars, uiVars>>

NextDoc ==
    \/ ExtractPdf
    \/ ExtractDocx
    \/ RaiseUnsupported
    \/ ReturnParsed

SpecDoc == InitDoc /\ [][NextDoc]_vars

\* ---------------------------------------------------------------------
\* The Streamlit script.  Every event of the page runs the script from
\* its first line, in a fresh namespace; st.rerun() ends the run and
\* starts another.  The widgets that only change what is drawn (the
\* explanations toggle, the expanders, the progress bar) are left out.
\* ---------------------------------------------------------------------

\* the most option labels of a question the user picks from
MaxPick == 2

Max2(a, b) == IF a >= b THEN a ELSE b

Min2(a, b) == IF a <= b THEN a ELSE b

DocxName == <<"a", ".", "d", "o", "c", "x">>

\* the files the user has at hand; the uploader takes .pdf and .docx
UploadedFiles ==
    {[name |-> DocxName, bytes |-> ThreeQuestionDocx],
     [name |-> DocxName, bytes |-> TwoQuestionDocx],
     [name |-> <<"b", ".", "p", "d", "f">>, bytes |-> EmptyPdf],
     [name |-> <<"c", ".", "P", "D", "F">>, bytes |-> Garbage]}

\* f"{uploaded.name}_{len(bytes_data)}"
file_id(f) == f.name \o <<"_">> \o ToDigits(f.bytes.size)

\* @st.cache_data: parse_any of every file, for the libraries at hand
ParsedUploads ==
    {<<f, p, d, parse_any(f.bytes, f.name, p, d)>> :
        f \in UploadedFiles, p \in BOOLEAN, d \in BOOLEAN}

load_questions(f) ==
    (CHOOSE t \in ParsedUploads :
        t[1] = f /\ t[2] = pdf_extract_text /\ t[3] = Document)[4]

\* how many QUESTION keywords a text holds
Keywords(t) == Cardinality({i \in 1..Len(t) : t[i] = "QUESTION"})

QuestionCount(bytes) ==
    Keywords(bytes.text) + Keywords(Join(bytes.paragraphs)) + Keywords(Join(bytes.cells))

\* the orders rng.shuffle can leave list(range(n)) in
Perms(n) == {p \in [1..n -> 0..(n - 1)] : \A i, j \in 1..n : p[i] = p[j] => i = j}

\* file_id and number of questions of the uploads that hold questions
Decks ==
    {d \in {<<file_id(f), QuestionCount(f.bytes)>> : f \in UploadedFiles} : d[2] > 0}

\* random.Random(file_id) deals one fixed order for each file_id and length
Deals ==
    {g \in [Decks -> UNION {Perms(d[2]) : d \in Decks}] :
        \A d \in Decks : Len(g[d]) = d[2]}

\* the progress files the user has at hand
ProgressFiles ==
    {[present |-> TRUE, json |-> TRUE, file |-> DocxName \o <<"_", "7">>, index |-> 1,
      answers |-> {<<<<"2">>, "C">>}, submitted |-> TRUE],
     [present |-> TRUE, json |-> TRUE, file |-> <<"b", ".", "p", "d", "f", "_", "4">>,
      index |-> 0, answers |-> {}, submitted |-> FALSE],
     [present |-> TRUE, json |-> FALSE, file |-> <<>>, index |-> 0, answers |-> {},
      submitted |-> FALSE]}

\* a link a former session left: question 6 of a.docx, question 1 answered
DeepLink ==
    [present |-> TRUE, file |-> DocxName \o <<"_", "7">>, idx |-> <<"5">>,
     ans |-> {<<<<"1">>, "B">>}]

NoEvent == [kind |-> "none", arg |-> 0]

Click(kind, arg) == [kind |-> kind, arg |-> arg]

\* the run reached the end of the script, or st.stop()
Done(q, qp, rd, scr) ==
    [quiz |-> q, qp |-> qp, radio |-> rd, screen |-> scr, rerun |-> FALSE]

\* the run called st.rerun()
Rerun(q, qp, rd) ==
    [quiz |-> q, qp |-> qp, radio |-> rd, screen |-> Page("rerunning", ""),
     rerun |-> TRUE]

\* st.session_state.quiz = {...} for a new file
NewQuiz(fid) ==
    [present |-> TRUE, file_id |-> fid, answers |-> NoAnswers, index |-> 0,
     submitted |-> FALSE, order |-> <<>>, order_mode |-> "None"]

StartQuiz(q, fid) == IF ~q.present \/ q.file_id # fid THEN NewQuiz(fid) ELSE q

\* list(range(n))
Range(n) == [i \in 1..n |-> i - 1]

\* the order of the questions: shuffled once for a file, or sequential
FixOrder(q, n, fid, shf) ==
    IF shf
    THEN IF q.order = <<>> \/ Len(q.order) # n \/ q.order_mode # "shuffled"
         THEN [q EXCEPT !.order = rng[<<fid, n>>], !.order_mode = "shuffled"]
         ELSE q
    ELSE IF q.order = <<>> \/ q.order_mode # "sequential" \/ Len(q.order) # n
         THEN [q EXCEPT !.order = Range(n), !.order_mode = "sequential"]
         ELSE q

\* questions = [base_questions[i] for i in qstate["order"]]
Questions(base, order) == [k \in 1..Len(order) |-> base[order[k] + 1]]

\* _encode_answers_map: the keys of the JSON object are strings
Encode(a) == {<<ToDigits(k), a[k]>> : k \in DOMAIN a}

\* _decode_answers_map: {int(k): v for k, v in d.items()}
Decode(s) ==
    [k \in {IntOf(p[1]) : p \in s} |-> (CHOOSE p \in s : IntOf(p[1]) = k)[2]]

\* if "ans" in qp and not qstate["answers"]: ... if restored: update
RestoreAnswers(q, restored) ==
    IF DOMAIN q.answers = {} /\ DOMAIN restored # {}
    THEN [q EXCEPT !.answers = restored]
    ELSE q

\* Restore from URL if it matches
Restore(q, qp, fid) ==
    IF qp.present /\ qp.file = fid
    THEN RestoreAnswers([q EXCEPT !.index = IntOf(qp.idx)], Decode(qp.ans))
    ELSE q

\* _persist_to_url() of the quiz q
Persist(q, fid) ==
    [present |-> TRUE, file |-> fid, idx |-> ToDigits(q.index), ans |-> Encode(q.answers)]

\* idx = max(0, min(idx, total - 1))
Clamp(index, total) == Max2(0, Min2(index, total - 1))

\* the index, answers and submitted of a progress file
LoadProgress(q, up) ==
    [q EXCEPT !.index = up.index, !.answers = Decode(up.answers),
              !.submitted = up.submitted]

\* what the loader says of a file it does not load
Notice(up) ==
    IF ~up.present THEN ""
    ELSE IF ~up.json THEN "Failed to load progress"
    ELSE "Progress file is for a different upload."

OptAt(mcq, i) == [letter |-> Labels[i], text |-> Strip(mcq.options[Labels[i]])]

HasText(o) == o.text # <<>>

\* opts: the labels with a non-empty option text
Opts(mcq) == SelectSeq([i \in 1..Len(Labels) |-> OptAt(mcq, i)], HasText)

\* default_index: the option of the recorded answer, else the first
DefaultIndex(answers, number, opts) ==
    IF number \in DOMAIN answers
         /\ \E k \in 1..Len(opts) : opts[k].letter = answers[number]
    THEN (CHOOSE k \in 1..Len(opts) : opts[k].letter = answers[number]) - 1
    ELSE 0

\* choice_label: the value the widget radio_<number> holds, its default
\* when it was not on the page before
Choice(answers, rd, number, opts) ==
    IF rd.present /\ rd.number = number /\ \E k \in 1..Len(opts) : opts[k] = rd.label
    THEN rd.label
    ELSE opts[DefaultIndex(answers, number, opts) + 1]

\* qstate["answers"][mcq.number] = choice_label[0]
SetAnswer(q, number, letter) ==
    [q EXCEPT !.answers =
        [k \in DOMAIN q.answers \cup {number} |->
            IF k = number THEN letter ELSE q.answers[k]]]

\* the Restart button's new quiz
Restarted(q, fid) ==
    [present |-> TRUE, file_id |-> fid, answers |-> NoAnswers, index |-> 0,
     submitted |-> FALSE, order |-> q.order, order_mode |-> q.order_mode]

\* the score loop: answered questions, and those answered correctly
Attempted(q, qs) ==
    Cardinality({k \in 1..Len(qs) : qs[k].number \in DOMAIN q.answers})

Correct(q, qs) ==
    Cardinality({k \in 1..Len(qs) :
        qs[k].number \in DOMAIN q.answers /\ q.answers[qs[k].number] = qs[k].answer})

\* the page of question idx; after Submit the score and the export
\* out = [q.__dict__ for q in questions]
QuizScreen(q, qs, idx, opts, notice) ==
    [view |-> "quiz", message |-> notice, idx |-> idx, total |-> Len(qs),
     number |-> qs[idx + 1].number, choices |-> opts, submitted |-> q.submitted,
     exported |-> q.submitted,
     out |-> IF q.submitted THEN qs ELSE <<>>,
     correct |-> IF q.submitted THEN Correct(q, qs) ELSE 0,
     attempted |-> IF q.submitted THEN Attempted(q, qs) ELSE 0,
     sidebar |-> ""]

\* _persist_to_url(); st.rerun()
Saved(q, fid, rd) == Rerun(q, Persist(q, fid), rd)

\* the four buttons under the question, then the score and the export
Buttons(q, qp, rd, qs, fid, ev, idx, notice, opts) ==
    CASE ev.kind = "prev" -> Saved([q EXCEPT !.index = Max2(0, idx - 1)], fid, rd)
      [] ev.kind = "next" ->
            Saved([q EXCEPT !.index = Min2(Len(qs) - 1, idx + 1)], fid, rd)
      [] ev.kind = "submit" -> Saved([q EXCEPT !.submitted = TRUE], fid, rd)
      [] ev.kind = "restart" -> Rerun(Restarted(q, fid), Persist(q, fid), rd)
      [] OTHER -> Done(q, qp, rd, QuizScreen(q, qs, idx, opts, notice))

\* the radio wrote the answer: _persist_to_url()
Recorded(q, rd, qs, fid, ev, idx, notice, opts) ==
    Buttons(q, Persist(q, fid), rd, qs, fid, ev, idx, notice, opts)

Picked(q, label, qs, fid, ev, idx, notice, opts) ==
    Recorded(SetAnswer(q, qs[idx + 1].number, label.letter),
             [present |-> TRUE, number |-> qs[idx + 1].number, label |-> label],
             qs, fid, ev, idx, notice, opts)

render_question(q, qp, rd, qs, fid, ev, idx, notice, opts) ==
    IF opts = <<>>
    THEN Buttons(q, qp, NoRadio, qs, fid, ev, idx, notice, opts)
    ELSE Picked(q, Choice(q.answers, rd, qs[idx + 1].number, opts),
                qs, fid, ev, idx, notice, opts)

\* the navigator grid, then the question
Navigator(q, qp, rd, qs, fid, ev, idx, notice) ==
    IF ev.kind = "jump"
    THEN Saved([q EXCEPT !.index = ev.arg], fid, rd)
    ELSE render_question(q, qp, rd, qs, fid, ev, idx, notice, Opts(qs[idx + 1]))

\* the "Load progress JSON" uploader, then the rest of the page
Loader(q, qp, rd, base, fid, up, ev) ==
    IF up.present /\ up.json /\ up.file = fid
    THEN Saved(LoadProgress(q, up), fid, rd)
    ELSE Navigator(q, qp, rd, Questions(base, q.order), fid, ev,
                   Clamp(q.index, Len(q.order)), Notice(up))

\* the quiz of the file, its order, the restore from the URL
WithQuestions(q, qp, rd, base, fid, shf, up, ev) ==
    Loader(Restore(FixOrder(StartQuiz(q, fid), Len(base), fid, shf), qp, fid),
           qp, rd, base, fid, up, ev)

\* try: base_questions = load_questions(...) except: st.error; st.stop()
\* if not base_questions: st.warning; st.stop()
Loaded(q, qp, rd, f, r, shf, up, ev) ==
    IF r.raised THEN Done(q, qp, NoRadio, Page("error", r.error.message))
    ELSE IF r.records = <<>>
    THEN Done(q, qp, NoRadio, Page("warning", "No questions were parsed."))
    ELSE WithQuestions(q, qp, rd, r.records, file_id(f), shf, up, ev)

\* one run of the script
Script(q, qp, rd, upl, shf, up, ev) ==
    IF upl = <<>> THEN Done(q, qp, NoRadio, InfoScreen)
    ELSE Loaded(q, qp, rd, upl[1], load_questions(upl[1]), shf, up, ev)

InitUI ==
    /\ uploaded = <<>>
    /\ shuffle = FALSE
    /\ rng \in Deals
    /\ quiz = NoQuiz
    /\ query_params \in {NoParams, DeepLink}
    /\ radio = NoRadio
    /\ progress_loader = NoProgress
    /\ event = NoEvent
    /\ scriptpc = "idle"
    /\ screen = InfoScreen
    /\ pdf_extract_text = TRUE
    /\ Document = TRUE
    /\ ParseIdle
    /\ DocIdle

\* the page takes an event when no run is under way, or when the script
\* reruns without end
Waiting == scriptpc \in {"idle", "loop"}

\* the user puts a file into the uploader
Upload(f) ==
    /\ Waiting
    /\ uploaded # <<f>>
    /\ uploaded' = <<f>>
    /\ scriptpc' = "run"
    /\ UNCHANGED <<shuffle, rng, quiz, query_params, radio, progress_loader, event,
                   screen, libVars, docVars, parseVars>>

\* the user takes the file out of the uploader
RemoveUpload ==
    /\ Waiting
    /\ uploaded # <<>>
    /\ uploaded' = <<>>
    /\ scriptpc' = "run"
    /\ UNCHANGED <<shuffle, rng, quiz, query_params, radio, progress_loader, event,
                   screen, libVars, docVars, parseVars>>

\* the "Shuffle questions" toggle
ToggleShuffle ==
    /\ Waiting
    /\ shuffle' = ~shuffle
    /\ scriptpc' = "run"
    /\ UNCHANGED <<uploaded, rng, quiz, query_params, radio, progress_loader, event,
                   screen, libVars, docVars, parseVars>>

\* the user picks the k-th option of the question on the page
Select(k) ==
    /\ Waiting
    /\ screen.view = "quiz"
    /\ k \in 1..Min2(MaxPick, Len(screen.choices))
    /\ screen.choices[k] # radio.label
    /\ radio' = [present |-> TRUE, number |-> screen.number, label |-> screen.choices[k]]
    /\ scriptpc' = "run"
    /\ UNCHANGED <<uploaded, shuffle, rng, quiz, query_params, progress_loader, event,
                   screen, libVars, docVars, parseVars>>

\* a button of the page
Press(ev) ==
    /\ Waiting
    /\ screen.view = "quiz"
    /\ event' = ev
    /\ scriptpc' = "run"
    /\ UNCHANGED <<uploaded, shuffle, rng, quiz, query_params, radio, progress_loader,
                   screen, libVars, docVars, parseVars>>

\* button i+1 of the navigator
Jump(i) == i \in 0..(screen.total - 1) /\ Press(Click("jump", i))

\* "Previous", disabled on the first question
Previous == screen.idx # 0 /\ Press(Click("prev", 0))

\* "Next", disabled on the last question
NextQuestion == screen.idx < screen.total - 1 /\ Press(Click("next", 0))

\* "Submit", disabled once submitted
Submit == ~screen.submitted /\ Press(Click("submit", 0))

Restart == Press(Click("restart", 0))

\* the user puts a progress file into the loader
LoadProgressFile(p) ==
    /\ Waiting
    /\ screen.view = "quiz"
    /\ ~progress_loader.present
    /\ progress_loader' = p
    /\ scriptpc' = "run"
    /\ UNCHANGED <<uploaded, shuffle, rng, quiz, query_params, radio, event,
                   screen, libVars, docVars, parseVars>>

\* the user takes the progress file out of the loader
RemoveProgressFile ==
    /\ Waiting
    /\ progress_loader.present
    /\ progress_loader' = NoProgress
    /\ scriptpc' = "run"
    /\ UNCHANGED <<uploaded, shuffle, rng, quiz, query_params, radio, event,
                   screen, libVars, docVars, parseVars>>

\* "Clear parser cache": the button is drawn before load_questions is
\* defined, so load_questions.clear() raises NameError and the handler
\* says the cache is not initialized; the cache keeps its entries
ClearParserCache ==
    /\ Waiting
    /\ event' = Click("clear", 0)
    /\ scriptpc' = "run"
    /\ UNCHANGED <<uploaded, shuffle, rng, quiz, query_params, radio, progress_loader,
                   screen, libVars, docVars, parseVars>>

\* what the sidebar says under the button
Sidebar(ev) == IF ev.kind = "clear" THEN "Parser cache not initialized yet." ELSE ""

\* The state a run leaves.  A run that ends in st.rerun() is followed by
\* another; a run that was started by st.rerun() and ends in st.rerun()
\* again is the script rerunning without end.  A widget that a finished
\* run did not draw loses its value.
Finish(run) ==
    /\ quiz' = run.quiz
    /\ query_params' = run.qp
    /\ radio' = run.radio
    /\ screen' = IF run.rerun /\ event.kind # "none" THEN screen
                  ELSE [run.screen EXCEPT !.sidebar = Sidebar(event)]
    /\ progress_loader' =
           IF run.rerun \/ run.screen.view = "quiz" THEN progress_loader ELSE NoProgress
    /\ scriptpc' =
           IF ~run.rerun THEN "idle" ELSE IF event.kind = "none" THEN "loop" ELSE "run"
    /\ event' = NoEvent
    /\ UNCHANGED <<uploaded, shuffle, rng, libVars, docVars, parseVars>>

\* the script runs from its first line with the widgets' values
RunScript ==
    /\ scriptpc \in {"run", "loop"}
    /\ Finish(Script(quiz, query_params, radio, uploaded, shuffle, progress_loader, event))

NextUI ==
    \/ \E f \in UploadedFiles : Upload(f)
    \/ RemoveUpload
    \/ ToggleShuffle
    \/ \E k \in 1..MaxPick : Select(k)
    \/ \E i \in 0..2 : Jump(i)
    \/ Previous
    \/ NextQuestion
    \/ Submit
    \/ Restart
    \/ \E p \in ProgressFiles : LoadProgressFile(p)
    \/ RemoveProgressFile
    \/ ClearParserCache
    \/ RunScript

SpecUI == InitUI /\ [][NextUI]_vars

\* the page offers "Download parsed questions as JSON"
Exporting == screen.view = "quiz" /\ screen.exported

\* ---------------------------------------------------------------------
\* Markers, blocks and fields as the specification speaks of them
\* ---------------------------------------------------------------------

\* the markers that start at position i of s
MarkersAt(s, i) == {k \in 1..NumMarkers : MatchMarker(k, s, i) # 0}

QuestionStarts(s) == {i \in 1..Len(s) : MatchQuestion(s, i) # 0}

\* a block runs from its QUESTION marker up to the next one
RunEnd(s, q) ==
    LET later == {i \in QuestionStarts(s) : i > q}
    IN  IF later = {} THEN Len(s) + 1 ELSE MinOf(later)

\* the kinds of the markers at the positions lo .. hi-1, in text order
KindsIn(s, lo, hi) ==
    Concat([i \in 1..Len(s) |->
               IF i >= lo /\ i < hi /\ MarkersAt(s, i) # {}
               THEN <<MinOf(MarkersAt(s, i))>> ELSE <<>>], 1, Len(s))

AllKinds == [k \in 1..NumMarkers |-> k]

\* does `need`, from its i-th element on, occur in order in ks from j on?
RECURSIVE OccursInOrder(_, _, _, _)
OccursInOrder(need, ks, i, j) ==
    IF i > Len(need) THEN TRUE
    ELSE IF j > Len(ks) THEN FALSE
    ELSE IF ks[j] = need[i] THEN OccursInOrder(need, ks, i + 1, j + 1)
    ELSE OccursInOrder(need, ks, i, j + 1)

\* a block is malformed when one of the seven markers is missing from the
\* order QUESTION, Option A..D, Correct Answer, Explanation/Reference
WellFormedRun(s, q) == OccursInOrder(AllKinds, KindsIn(s, q, RunEnd(s, q)), 1, 1)

\* the record of a well-formed block, read from the block alone
RecordOfRun(s, q) == MCQ(QUESTION_BLOCK(Slice(s, q, RunEnd(s, q)), 1))

WellFormedRuns(s) ==
    {q \in QuestionStarts(s) :
        WellFormedRun(s, q) /\ QUESTION_BLOCK(Slice(s, q, RunEnd(s, q)), 1).matched}

Occurrences(rs, r) == Cardinality({i \in 1..Len(rs) : rs[i] = r})

\* the last block of s has each of the seven markers exactly once, in order
LastRunWellFormed(s) ==
    /\ QuestionStarts(s) # {}
    /\ KindsIn(s, MaxOf(QuestionStarts(s)), Len(s) + 1) = AllKinds

\* where the text after the last Explanation/Reference marker of s starts
LastExplanationStart(s) ==
    LET i == MaxOf({j \in 1..Len(s) : MatchExplanation(s, j) # 0})
    IN  MatchExplanation(s, i)

HasExplanationMarker(s) == \E j \in 1..Len(s) : MatchExplanation(s, j) # 0

\* the first Q<number> or QUESTION<number> token from position `from` on
FirstQLike(s, from) ==
    LET qs == {p \in from..Len(s) : MatchQLike(s, p) # 0}
    IN  IF qs = {} THEN Len(s) + 1 ELSE MinOf(qs)

\* the text with every full-width colon written as ':'
AsciiColons(s) == [i \in 1..Len(s) |-> IF s[i] = "FWCOLON" THEN ":" ELSE s[i]]

\* is the QUESTION keyword at i followed by its number without a colon?
BareQuestion(s, i) ==
    s[i] = "QUESTION" /\ At(s, SkipWS(s, i + 1)) \in Digits

\* the text with a ':' put after every QUESTION keyword that has none
ColonAfterQuestion(s) ==
    Concat([i \in 1..Len(s) |->
               IF BareQuestion(s, i) THEN <<s[i], ":">> ELSE <<s[i]>>], 1, Len(s))

\* ---------------------------------------------------------------------
\* Properties
\* ---------------------------------------------------------------------

\* C1: the sequence parse_questions_from_text returns is sorted ascending
\* by record number, whatever order the blocks have in the text.
C1_SortedByNumber ==
    Parsed => \A i \in 1..(Len(results) - 1) :
                  results[i].number <= results[i + 1].number

\* C1 witness: two blocks written in descending order were parsed.
C1_Witness ==
    /\ Parsed
    /\ Len(found) = 2
    /\ found[1].number > found[2].number
    /\ results # found

\* C2: a malformed block is skipped: the records returned are exactly the
\* records of the well-formed blocks, each with its own number and fields.
C2_MalformedSkipped ==
    Parsed =>
        LET expected == {RecordOfRun(norm, q) : q \in WellFormedRuns(norm)}
            returned == {results[i] : i \in 1..Len(results)}
        IN  \A r \in expected \cup returned :
                Occurrences(results, r)
                  = Cardinality({q \in WellFormedRuns(norm) : RecordOfRun(norm, q) = r})

\* C3: no option text of a returned record contains a structural marker.
C3_OptionsFreeOfMarkers ==
    Parsed =>
        \A r \in 1..Len(results) : \A l \in {"A", "B", "C", "D"} :
            \A i \in 1..Len(results[r].options[l]) :
                MarkersAt(results[r].options[l], i) = {}

\* C4: in the output of normalize_text every structural marker is
\* immediately preceded by a new line.
C4_MarkersStartLines ==
    Normalized =>
        \A i \in 1..Len(norm) : MarkersAt(norm, i) # {} => At(norm, i - 1) = "NL"

\* C5: idempotence, parse(normalize(t)) = parse(normalize(normalize(t))).
C5_Idempotent == pc = "twice" => once = twice

\* C6 as claimed: the explanation of the last well-formed block is the
\* whole trimmed text from after its Explanation/Reference colon up to the
\* end of the input.
C6_WholeTail ==
    (Parsed /\ LastRunWellFormed(norm) /\ HasExplanationMarker(txt)) =>
        \E i \in 1..Len(results) :
            results[i].explanation
              = Strip(Slice(txt, LastExplanationStart(txt), Len(txt) + 1))

\* C6 amended: the explanation of the last well-formed block is the trimmed
\* text of the normalised input from after its Explanation/Reference colon
\* up to the first following Q<number> or QUESTION<number> token or, when
\* there is none, up to the end of the normalised input.
C6_TailOfNormalized ==
    (Parsed /\ LastRunWellFormed(norm)) =>
        \E i \in 1..Len(results) :
            results[i].explanation
              = clean(Slice(norm, LastExplanationStart(norm),
                            FirstQLike(norm, LastExplanationStart(norm))))

\* C6 witness: a last block was parsed whose explanation mentions "Q 7":
\* the explanation stops before that token, short of the end of the input.
C6_Witness ==
    /\ Parsed
    /\ LastRunWellFormed(norm)
    /\ FirstQLike(norm, LastExplanationStart(norm)) <= Len(norm)
    /\ \E i \in 1..Len(results) : results[i].explanation = <<"we">>

\* C7: a block written with the full-width colon yields the same records
\* as the block written with ':', and a QUESTION marker without a colon
\* yields the same records as one with a colon.
C7_ColonForms ==
    Parsed =>
        /\ results = parse_questions_from_text(AsciiColons(txt))
        /\ results = parse_questions_from_text(ColonAfterQuestion(txt))

\* C10: the answer of every returned record is one of the upper-case
\* labels A, B, C, D.
C10_AnswerIsLabel ==
    Parsed => \A i \in 1..Len(results) : results[i].answer \in {"A", "B", "C", "D"}

\* C10 witness: a block whose Correct Answer letter is the lower-case "b"
\* was parsed into a record.
C10_Witness ==
    /\ Parsed
    /\ \E i \in 1..Len(txt) :
           MatchCorrectAnswer(txt, i) # 0 /\ txt[MatchCorrectAnswer(txt, i) - 1] = "b"
    /\ \E i \in 1..Len(results) : results[i].answer = "B"

\* the kind a file name declares: the letters after its last dot, read in
\* any letter case
HasDot(name) == \E i \in 1..Len(name) : name[i] = "."

Extension(name) ==
    SubSeq(name, MaxOf({i \in 1..Len(name) : name[i] = "."}) + 1, Len(name))

SameLetter(x, y) ==
    x = y \/ \E i \in DOMAIN UpperCase : {x, y} = {UpperCase[i], LowerCase[i]}

Spells(s, word) ==
    Len(s) = Len(word) /\ \A i \in 1..Len(word) : SameLetter(s[i], word[i])

DeclaredKind(name) ==
    IF HasDot(name) /\ Spells(Extension(name), <<"p", "d", "f">>) THEN "pdf"
    ELSE IF HasDot(name) /\ Spells(Extension(name), <<"d", "o", "c", "x">>) THEN "docx"
    ELSE "other"

\* is the extraction library of the declared kind missing?
ExtractorMissing ==
    \/ DeclaredKind(filename) = "pdf" /\ ~pdf_extract_text
    \/ DeclaredKind(filename) = "docx" /\ ~Document

\* C8: parse_any returns no records on a bad request.  For a file name
\* that declares neither PDF nor DOCX it raises the "Unsupported file type"
\* error, whether or not the libraries are there, and enters neither an
\* extractor nor the parser; for a PDF or DOCX name whose library is
\* missing it raises that library's "is required" error and does not
\* enter the parser; and each of the errors tells which of the failures
\* happened.
C8_BadRequestsFail ==
    docpc = "done" =>
        /\ DeclaredKind(filename) = "other" =>
               outcome = Raise(Unsupported) /\ calls = <<>>
        /\ (DeclaredKind(filename) = "pdf" /\ ~pdf_extract_text) =>
               outcome = Raise(PdfMissing) /\ calls = <<"extract_text_from_pdf">>
        /\ (DeclaredKind(filename) = "docx" /\ ~Document) =>
               outcome = Raise(DocxMissing) /\ calls = <<"extract_text_from_docx">>
        /\ ~outcome.raised => (DeclaredKind(filename) # "other" /\ ~ExtractorMissing)
        /\ outcome = Raise(Unsupported) => DeclaredKind(filename) = "other"
        /\ outcome \in {Raise(PdfMissing), Raise(DocxMissing)} => ExtractorMissing

\* C8 witness: a call for "q.pdf.txt" with PDF bytes and both libraries
\* present has raised the unsupported-type error.
C8_Witness ==
    /\ docpc = "done"
    /\ DeclaredKind(filename) = "other"
    /\ EndsWith(filename, <<"t", "x", "t">>)
    /\ file_bytes.format = "pdf"
    /\ pdf_extract_text
    /\ Document
    /\ outcome = Raise(Unsupported)

\* C9: whenever the page offers the export of the parsed questions, the
\* exported array lists the records in ascending order of number.
C9_ExportAscending ==
    Exporting =>
        \A i \in 1..(Len(screen.out) - 1) :
            screen.out[i].number <= screen.out[i + 1].number

====
